---- MODULE Spec2Model ----
(***************************************************************************)
(* A model of app.py, the recipe catalogue: the module-level dictionary    *)
(* `recipes`, the three routes index, recipe and add_recipe, and the slug  *)
(* computation of add_recipe.  Text is modelled as sequences of one-       *)
(* character strings, so that lower-casing, the regular-expression         *)
(* substitution, str.replace, str.split and URL quoting are computed       *)
(* character by character as the code computes them.                       *)
(***************************************************************************)
EXTENDS Naturals, Sequences, FiniteSets, TLC

VARIABLES
    recipes,        \* the dict `recipes`: a sequence of [key, value] entries in insertion order
    request,        \* the request handled last (sequential server)
    response,       \* the response to it
    nposts,         \* number of POST /add requests handled so far
    firstInserted,  \* history: the keys of `recipes` in the order they were first written
    threads,        \* concurrent server: each worker thread's position and locals in add_recipe
    writes,         \* history: the thread ids in the order of their store writes
    slugIn,         \* slug computation alone: the name given
    slugOut         \* slug computation alone: <<slug>> once computed, <<>> before

vars == <<recipes, request, response, nposts, firstInserted, threads, writes, slugIn, slugOut>>

(***************************************************************************)
(* Bounds of the model.                                                    *)
(***************************************************************************)
MaxPosts == 2
MaxNameLen == 3

(***************************************************************************)
(* Characters.  The names the model submits are ASCII.                     *)
(***************************************************************************)
UpperCase == <<"A", "B", "C", "D", "E", "F", "G", "H", "I", "J", "K", "L", "M",
               "N", "O", "P", "Q", "R", "S", "T", "U", "V", "W", "X", "Y", "Z">>
LowerCase == <<"a", "b", "c", "d", "e", "f", "g", "h", "i", "j", "k", "l", "m",
               "n", "o", "p", "q", "r", "s", "t", "u", "v", "w", "x", "y", "z">>
Digits == {"0", "1", "2", "3", "4", "5", "6", "7", "8", "9"}

Range(s) == {s[i] : i \in DOMAIN s}

\* str.lower() on one character
LowerChar(c) ==
    IF \E i \in DOMAIN UpperCase : UpperCase[i] = c
    THEN LowerCase[CHOOSE i \in DOMAIN UpperCase : UpperCase[i] = c]
    ELSE c

\* the class \w of the pattern: letters, digits and the underscore
IsWordChar(c) == c \in Range(UpperCase) \cup Range(LowerCase) \cup Digits \cup {"_"}

\* the class \s of the pattern: the space and the other whitespace characters
IsSpaceChar(c) == c \in {" ", "\t", "\n", "\r", "\f"}

\* name.lower()
Lower(s) == [i \in DOMAIN s |-> LowerChar(s[i])]

\* re.sub(r'[^\w\s]', '', s): every character outside \w and \s is deleted
ReSubNonWordNonSpace(s) == SelectSeq(s, LAMBDA c : IsWordChar(c) \/ IsSpaceChar(c))

\* s.replace(' ', '-'): each space character becomes one hyphen; nothing else changes
ReplaceSpaceByHyphen(s) == [i \in DOMAIN s |-> IF s[i] = " " THEN "-" ELSE s[i]]

\* recipe_id = re.sub(r'[^\w\s]', '', name.lower()).replace(' ', '-')
Slugify(name) == ReplaceSpaceByHyphen(ReSubNonWordNonSpace(Lower(name)))

(***************************************************************************)
(* str.split('\n') and the nl2br filter.                                   *)
(***************************************************************************)
\* a variant that drops the empty pieces
RECURSIVE SplitDropEmpty(_, _)
SplitDropEmpty(s, sep) ==
    IF \A i \in DOMAIN s : s[i] # sep
    THEN (IF s = <<>> THEN <<>> ELSE <<s>>)
    ELSE LET i == CHOOSE j \in DOMAIN s : s[j] = sep /\ \A k \in 1..(j - 1) : s[k] # sep
         IN  (IF i = 1 THEN <<>> ELSE <<SubSeq(s, 1, i - 1)>>)
             \o SplitDropEmpty(SubSeq(s, i + 1, Len(s)), sep)

\* s.split(sep): the pieces between the separators, empty pieces included
RECURSIVE Split(_, _)
Split(s, sep) ==
    IF \A i \in DOMAIN s : s[i] # sep
    THEN <<s>>
    ELSE LET i == CHOOSE j \in DOMAIN s : s[j] = sep /\ \A k \in 1..(j - 1) : s[k] # sep
         IN  <<SubSeq(s, 1, i - 1)>> \o Split(SubSeq(s, i + 1, Len(s)), sep)

RECURSIVE nl2br(_)
nl2br(value) ==
    IF value = <<>> THEN <<>>
    ELSE (IF Head(value) = "\n" THEN <<"<", "b", "r", ">">> ELSE <<Head(value)>>)
         \o nl2br(Tail(value))

(***************************************************************************)
(* The dict: entries in insertion order.                                   *)
(***************************************************************************)
Keys(d) == {d[i].key : i \in DOMAIN d}

HasKey(d, k) == k \in Keys(d)

IndexOf(d, k) == CHOOSE i \in DOMAIN d : d[i].key = k

\* d[k], for a key of d
Item(d, k) == d[IndexOf(d, k)].value

\* d.get(k): <<value>> when k is a key, <<>> for None
DictGet(d, k) == IF HasKey(d, k) THEN <<Item(d, k)>> ELSE <<>>

\* variants of the assignment: setdefault (an existing key keeps its record), a
\* re-insertion (an overwritten key moves to the end), and an update in place
\* (an existing record keeps its ingredients)
SetItemSetDefault(d, k, v) ==
    IF HasKey(d, k) THEN d ELSE Append(d, [key |-> k, value |-> v])

SetItemMoveToEnd(d, k, v) ==
    Append(SelectSeq(d, LAMBDA e : e.key # k), [key |-> k, value |-> v])

SetItemMerge(d, k, v) ==
    IF HasKey(d, k)
    THEN [d EXCEPT ![IndexOf(d, k)] =
             [key |-> k, value |-> [v EXCEPT !.ingredients = Item(d, k).ingredients]]]
    ELSE Append(d, [key |-> k, value |-> v])

\* d[k] = v: a new key is appended, an existing key keeps its position
SetItem(d, k, v) ==
    IF HasKey(d, k)
    THEN [d EXCEPT ![IndexOf(d, k)] = [key |-> k, value |-> v]]
    ELSE Append(d, [key |-> k, value |-> v])

(***************************************************************************)
(* The seeded dictionary.                                                  *)
(***************************************************************************)
SeedName == <<"M", "i", "d", "n", "i", "g", "h", "t", " ", "R", "a", "m", "e", "n">>
SeedSlug == <<"m", "i", "d", "n", "i", "g", "h", "t", "-", "r", "a", "m", "e", "n">>
SeedRecipe ==
    [name |-> SeedName,
     ingredients |->
        << <<"i", "n", "s", "t", "a", "n", "t", " ", "r", "a", "m", "e", "n">>,
           <<"e", "g", "g">>,
           <<"g", "r", "e", "e", "n", " ", "o", "n", "i", "o", "n", "s">>,
           <<"h", "o", "t", " ", "s", "a", "u", "c", "e">> >>,
     instructions |->
        <<"1", ".", " ", "B", "o", "i", "l", " ", "w", "a", "t", "e", "r", "\n",
          "2", ".", " ", "C", "o", "o", "k", " ", "n", "o", "o", "d", "l", "e", "s", "\n",
          "3", ".", " ", "A", "d", "d", " ", "t", "o", "p", "p", "i", "n", "g", "s">>]
SeedRecipes == << [key |-> SeedSlug, value |-> SeedRecipe] >>

(***************************************************************************)
(* URLs.  url_for percent-encodes the characters of a path argument that   *)
(* are not URL-safe; the server decodes the request path before the URL    *)
(* map matches it.  Of the characters a recipe_id can hold, only the       *)
(* whitespace characters are encoded.                                      *)
(***************************************************************************)
PercentCodes ==
    { <<" ", <<"%", "2", "0">> >>, <<"\t", <<"%", "0", "9">> >>, <<"\n", <<"%", "0", "A">> >>,
      <<"\r", <<"%", "0", "D">> >>, <<"\f", <<"%", "0", "C">> >>, <<"%", <<"%", "2", "5">> >> }

QuoteChar(c) ==
    IF \E p \in PercentCodes : p[1] = c
    THEN (CHOOSE p \in PercentCodes : p[1] = c)[2]
    ELSE <<c>>

RECURSIVE UrlQuote(_)
UrlQuote(s) == IF s = <<>> THEN <<>> ELSE QuoteChar(Head(s)) \o UrlQuote(Tail(s))

RECURSIVE UrlUnquote(_)
UrlUnquote(s) ==
    IF s = <<>> THEN <<>>
    ELSE IF Len(s) >= 3 /\ \E p \in PercentCodes : p[2] = SubSeq(s, 1, 3)
         THEN <<(CHOOSE p \in PercentCodes : p[2] = SubSeq(s, 1, 3))[1]>>
              \o UrlUnquote(SubSeq(s, 4, Len(s)))
         ELSE <<Head(s)>> \o UrlUnquote(Tail(s))

IndexPath == <<"/">>
AddPath == <<"/", "a", "d", "d">>
RecipePrefix == <<"/", "r", "e", "c", "i", "p", "e", "/">>

\* url_for('recipe', recipe_id=recipe_id)
UrlForRecipe(recipe_id) == RecipePrefix \o UrlQuote(recipe_id)

\* the URL map built by the three @app.route decorators, applied to a decoded path:
\* <recipe_id> is the default string converter, at least one character, no slash
MatchRoute(path) ==
    IF path = IndexPath THEN [endpoint |-> "index", recipe_id |-> <<>>]
    ELSE IF path = AddPath THEN [endpoint |-> "add_recipe", recipe_id |-> <<>>]
    ELSE IF /\ Len(path) > Len(RecipePrefix)
            /\ SubSeq(path, 1, Len(RecipePrefix)) = RecipePrefix
            /\ \A i \in (Len(RecipePrefix) + 1)..Len(path) : path[i] # "/"
         THEN [endpoint |-> "recipe",
               recipe_id |-> SubSeq(path, Len(RecipePrefix) + 1, Len(path))]
         ELSE [endpoint |-> "none", recipe_id |-> <<>>]

(***************************************************************************)
(* Responses.  A page body is modelled by the values its template renders. *)
(***************************************************************************)
Page(body) == [status |-> 200, body |-> body, location |-> <<>>]

\* return "Recipe not found", 404
RecipeNotFound ==
    [status |-> 404, body |-> [page |-> "text", text |-> "Recipe not found"], location |-> <<>>]

\* the framework's answer to a path no route matches
RouteNotFound == [status |-> 404, body |-> [page |-> "framework_not_found"], location |-> <<>>]

\* the framework's answer to request.form[key] for a key the form lacks
BadRequest == [status |-> 400, body |-> [page |-> "framework_bad_request"], location |-> <<>>]

\* redirect(location)
Redirect(location) == [status |-> 302, body |-> [page |-> "redirect"], location |-> location]

NoResponse == [status |-> 0, body |-> [page |-> "none"], location |-> <<>>]

\* the list page: one card per item of recipes.items(), in the dict's order
IndexPage(d) ==
    [page |-> "index",
     cards |-> [i \in DOMAIN d |-> [name |-> d[i].value.name, href |-> UrlForRecipe(d[i].key)]]]

\* the detail page of one recipe
DetailPage(recipe_data) ==
    [page |-> "detail",
     name |-> recipe_data.name,
     ingredients |-> recipe_data.ingredients,
     instructions |-> nl2br(recipe_data.instructions)]

AddFormPage == [page |-> "add_form", fields |-> <<"name", "ingredients", "instructions">>]

(***************************************************************************)
(* The handlers.  Each yields the dictionary it leaves and its response.   *)
(***************************************************************************)
index(d) == [recipes |-> d, response |-> Page(IndexPage(d))]

\* a variant that takes the record out of the dict (pop for get)
recipe_pop(d, recipe_id) ==
    IF ~HasKey(d, recipe_id)
    THEN [recipes |-> d, response |-> RecipeNotFound]
    ELSE [recipes |-> SelectSeq(d, LAMBDA e : e.key # recipe_id),
          response |-> Page(DetailPage(Item(d, recipe_id)))]

recipe(d, recipe_id) ==
    LET recipe_data == DictGet(d, recipe_id)
    IN  IF recipe_data = <<>>
        THEN [recipes |-> d, response |-> RecipeNotFound]
        ELSE [recipes |-> d, response |-> Page(DetailPage(recipe_data[1]))]

\* request.form[key] raises the framework's bad-request error for a missing key
HasField(form, key) == key \in DOMAIN form

NewRecipe(name, ingredients, instructions) ==
    [name |-> name, ingredients |-> ingredients, instructions |-> instructions]

\* a variant that reads the form with defaults (form.get(key, '')) and never rejects
add_recipe_defaults(method, form, d) ==
    IF method = "POST"
    THEN LET Field(key) == IF HasField(form, key) THEN form[key] ELSE <<>>
             recipe_id == Slugify(Field("name"))
         IN  [recipes |-> SetItem(d, recipe_id,
                                  NewRecipe(Field("name"), Split(Field("ingredients"), "\n"),
                                            Field("instructions"))),
              response |-> Redirect(UrlForRecipe(recipe_id))]
    ELSE [recipes |-> d, response |-> Page(AddFormPage)]

add_recipe(method, form, d) ==
    IF method = "POST"
    THEN IF ~HasField(form, "name") THEN [recipes |-> d, response |-> BadRequest]
         ELSE IF ~HasField(form, "ingredients") THEN [recipes |-> d, response |-> BadRequest]
         ELSE IF ~HasField(form, "instructions") THEN [recipes |-> d, response |-> BadRequest]
         ELSE LET name == form["name"]
                  ingredients == Split(form["ingredients"], "\n")
                  instructions == form["instructions"]
                  recipe_id == Slugify(name)
              IN  [recipes |-> SetItem(d, recipe_id, NewRecipe(name, ingredients, instructions)),
                   response |-> Redirect(UrlForRecipe(recipe_id))]
    ELSE [recipes |-> d, response |-> Page(AddFormPage)]

\* the application: decode the path, match it, call the view
Dispatch(method, path, form, d) ==
    LET m == MatchRoute(UrlUnquote(path))
    IN  CASE m.endpoint = "index" -> index(d)
          [] m.endpoint = "recipe" -> recipe(d, m.recipe_id)
          [] m.endpoint = "add_recipe" -> add_recipe(method, form, d)
          [] OTHER -> [recipes |-> d, response |-> RouteNotFound]

(***************************************************************************)
(* The requests the model sends.                                           *)
(***************************************************************************)
Fields == {"name", "ingredients", "instructions"}

\* recipe names submitted: the seeded name again, the name of a second recipe,
\* names of symbols only, with two spaces, with a tab, with an underscore, a
\* digit and a hyphen, and the empty name
GarlicSoup == <<"G", "a", "r", "l", "i", "c", " ", "S", "o", "u", "p">>
Names ==
    { SeedName,
      GarlicSoup,
      <<"!", "!", "!">>,
      <<"a", " ", " ", "b">>,
      <<"a", "\t", "b">>,
      <<"A", "_", "1", "-", "b">>,
      <<>> }

\* the two texts submitted with a name: <<ingredients, instructions>>
Texts ==
    { << <<"e", "g", "g">>,
         <<"M", "i", "x">> >>,
      << <<"o", "i", "l", "\r", "\n", "s", "a", "l", "t", "\n">>,
         <<"B", "o", "i", "l", ".", "\n", "E", "a", "t", ".">> >> }

CompleteForms ==
    { [name |-> n, ingredients |-> x[1], instructions |-> x[2]] : n \in Names, x \in Texts }

Restrict(f, S) == [k \in S |-> f[k]]

\* forms that lack one, two or all of the three fields
IncompleteForms ==
    { Restrict(f, S) : f \in {g \in CompleteForms : g.name = GarlicSoup},
                       S \in (SUBSET Fields) \ {Fields} }

Forms == { Restrict(f, Fields) : f \in CompleteForms } \cup IncompleteForms

NoForm == Restrict([name |-> <<>>], {})

\* paths requested besides those of the recipes in the store: a recipe that was
\* never added, the detail route of the empty recipe_id, and a path of no route
AbsentSlug == <<"d", "o", "e", "s", "-", "n", "o", "t", "-", "e", "x", "i", "s", "t">>
OtherPaths == { UrlForRecipe(AbsentSlug), UrlForRecipe(<<>>), <<"/", "x">> }

NoRequest == [method |-> "NONE", path |-> <<>>, form |-> NoForm]

(***************************************************************************)
(* The sequential server: one request is handled at a time, to completion. *)
(***************************************************************************)
Threads == {1, 2}

IdleThread ==
    [pc |-> "idle", form |-> NoForm, name |-> <<>>, ingredients |-> <<>>,
     instructions |-> <<>>, recipe_id |-> <<>>, response |-> NoResponse]

Init ==
    /\ recipes = SeedRecipes
    /\ request = NoRequest
    /\ response = NoResponse
    /\ nposts = 0
    /\ firstInserted = <<SeedSlug>>
    /\ threads = [t \in Threads |-> IdleThread]
    /\ writes = <<>>
    /\ slugIn = <<>>
    /\ slugOut = <<>>

\* the history of first insertions: a key that is new to the dict is appended
NoteInserted(order, before, after) ==
    IF Keys(after) \subseteq Keys(before)
    THEN order
    ELSE Append(order, CHOOSE k \in Keys(after) : k \notin Keys(before))

Handle(method, path, form) ==
    LET r == Dispatch(method, path, form, recipes)
    IN  /\ request' = [method |-> method, path |-> path, form |-> form]
        /\ recipes' = r.recipes
        /\ response' = r.response
        /\ firstInserted' = NoteInserted(firstInserted, recipes, r.recipes)
        /\ UNCHANGED <<threads, writes, slugIn, slugOut>>

\* POST /add with a form
PostAdd(form) ==
    /\ nposts < MaxPosts
    /\ nposts' = nposts + 1
    /\ Handle("POST", AddPath, form)

\* GET /
GetIndex ==
    /\ Handle("GET", IndexPath, NoForm)
    /\ UNCHANGED nposts

\* GET /add
GetAdd ==
    /\ Handle("GET", AddPath, NoForm)
    /\ UNCHANGED nposts

\* GET /recipe/<recipe_id> for a key of the store
GetRecipe(recipe_id) ==
    /\ Handle("GET", UrlForRecipe(recipe_id), NoForm)
    /\ UNCHANGED nposts

\* the client follows the redirect it was just given
FollowRedirect ==
    /\ response.status = 302
    /\ Handle("GET", response.location, NoForm)
    /\ UNCHANGED nposts

\* GET of another path
GetOther(path) ==
    /\ Handle("GET", path, NoForm)
    /\ UNCHANGED nposts

Next ==
    \/ \E form \in Forms : PostAdd(form)
    \/ GetIndex
    \/ GetAdd
    \/ \E k \in Keys(recipes) : GetRecipe(k)
    \/ FollowRedirect
    \/ \E path \in OtherPaths : GetOther(path)

Spec == Init /\ [][Next]_vars

(***************************************************************************)
(* The threaded server: each worker thread runs add_recipe for one POST,   *)
(* statement by statement.  The locals are the thread's own; the only      *)
(* shared object is `recipes`, written by the one subscript assignment.    *)
(***************************************************************************)
\* a POST /add reaches a worker thread
BeginPost(t, form) ==
    /\ threads[t].pc = "idle"
    /\ threads' = [threads EXCEPT ![t].pc = "form", ![t].form = form]
    /\ UNCHANGED <<recipes, request, response, nposts, firstInserted, writes, slugIn, slugOut>>

\* the three reads of request.form
ReadForm(t) ==
    /\ threads[t].pc = "form"
    /\ LET form == threads[t].form
       IN  IF \E key \in Fields : ~HasField(form, key)
           THEN threads' = [threads EXCEPT ![t].pc = "done", ![t].response = BadRequest]
           ELSE threads' = [threads EXCEPT ![t].pc = "slug",
                                           ![t].name = form["name"],
                                           ![t].ingredients = Split(form["ingredients"], "\n"),
                                           ![t].instructions = form["instructions"]]
    /\ UNCHANGED <<recipes, request, response, nposts, firstInserted, writes, slugIn, slugOut>>

\* recipe_id = ...
MakeRecipeId(t) ==
    /\ threads[t].pc = "slug"
    /\ threads' = [threads EXCEPT ![t].pc = "store", ![t].recipe_id = Slugify(threads[t].name)]
    /\ UNCHANGED <<recipes, request, response, nposts, firstInserted, writes, slugIn, slugOut>>

\* recipes[recipe_id] = {...}: the new dict is built from the locals and stored
\* by one subscript assignment
StoreRecipe(t) ==
    /\ threads[t].pc = "store"
    /\ recipes' = SetItem(recipes, threads[t].recipe_id,
                          NewRecipe(threads[t].name, threads[t].ingredients,
                                    threads[t].instructions))
    /\ firstInserted' = NoteInserted(firstInserted, recipes, recipes')
    /\ writes' = Append(writes, t)
    /\ threads' = [threads EXCEPT ![t].pc = "redirect"]
    /\ UNCHANGED <<request, response, nposts, slugIn, slugOut>>

\* return redirect(url_for('recipe', recipe_id=recipe_id))
SendRedirect(t) ==
    /\ threads[t].pc = "redirect"
    /\ threads' = [threads EXCEPT ![t].pc = "done",
                                  ![t].response = Redirect(UrlForRecipe(threads[t].recipe_id))]
    /\ UNCHANGED <<recipes, request, response, nposts, firstInserted, writes, slugIn, slugOut>>

ConcNext ==
    \E t \in Threads :
        \/ \E form \in Forms : BeginPost(t, form)
        \/ ReadForm(t)
        \/ MakeRecipeId(t)
        \/ StoreRecipe(t)
        \/ SendRedirect(t)

ConcSpec == Init /\ [][ConcNext]_vars

(***************************************************************************)
(* The slug computation alone, applied to every name of at most MaxNameLen *)
(* characters over NameChars.                                              *)
(***************************************************************************)
NameChars == {"A", "b", "1", "_", " ", "\t", "!", "-"}

BoundedNames == UNION { [1..n -> NameChars] : n \in 0..MaxNameLen }

SlugInit ==
    /\ recipes = SeedRecipes
    /\ request = NoRequest
    /\ response = NoResponse
    /\ nposts = 0
    /\ firstInserted = <<SeedSlug>>
    /\ threads = [t \in Threads |-> IdleThread]
    /\ writes = <<>>
    /\ slugIn \in BoundedNames
    /\ slugOut = <<>>

SlugStep ==
    /\ slugOut = <<>>
    /\ slugOut' = <<Slugify(slugIn)>>
    /\ UNCHANGED <<recipes, request, response, nposts, firstInserted, threads, writes, slugIn>>

SlugNext == SlugStep

SlugSpec == SlugInit /\ [][SlugNext]_vars

(***************************************************************************)
(* Properties.  The definitions below state the claims; they are not part  *)
(* of the model of the program.                                            *)
(***************************************************************************)
CompletePost == request.method = "POST" /\ DOMAIN request.form = Fields

\* the record a complete form asks to store
Submitted(form) == NewRecipe(form["name"], Split(form["ingredients"], "\n"), form["instructions"])

RECURSIVE Join(_, _)
Join(parts, sep) ==
    IF Len(parts) = 0 THEN <<>>
    ELSE IF Len(parts) = 1 THEN parts[1]
    ELSE parts[1] \o <<sep>> \o Join(Tail(parts), sep)

RECURSIVE DropLeadingSpace(_)
DropLeadingSpace(s) ==
    IF s # <<>> /\ IsSpaceChar(Head(s)) THEN DropLeadingSpace(Tail(s)) ELSE s

RECURSIVE CollapseSpaceRuns(_)
CollapseSpaceRuns(s) ==
    IF s = <<>> THEN <<>>
    ELSE IF IsSpaceChar(Head(s))
         THEN <<"-">> \o CollapseSpaceRuns(DropLeadingSpace(s))
         ELSE <<Head(s)>> \o CollapseSpaceRuns(Tail(s))

\* the slug as the contract words it: lower-case, delete what is not a letter,
\* digit, underscore or whitespace, turn each run of whitespace into one hyphen
ContractSlug(name) ==
    CollapseSpaceRuns(SelectSeq(Lower(name), LAMBDA c : IsWordChar(c) \/ IsSpaceChar(c)))

SlugChars == Range(LowerCase) \cup Digits \cup {"_", "-"}

\* C1: the slug computed for a name is the contract's slug of that name: each run
\* of whitespace, spaces or not, has become exactly one hyphen.
C1_SlugIsContractSlug == slugOut # <<>> => slugOut[1] = ContractSlug(slugIn)

\* C2: after a POST /add carrying all three fields the store maps the slug of the
\* name to a record with the submitted name, the ingredients text cut at its
\* newlines in order (joining the pieces with newlines gives the text back and no
\* piece holds a newline) and the instructions unchanged, and the response is a
\* redirect to /recipe/{slug}.
C2_PostStoresAndRedirects ==
    CompletePost =>
        LET form == request.form
            slug == Slugify(form["name"])
        IN  /\ HasKey(recipes, slug)
            /\ Item(recipes, slug).name = form["name"]
            /\ Join(Item(recipes, slug).ingredients, "\n") = form["ingredients"]
            /\ \A i \in DOMAIN Item(recipes, slug).ingredients :
                   "\n" \notin Range(Item(recipes, slug).ingredients[i])
            /\ Item(recipes, slug).instructions = form["instructions"]
            /\ response.status = 302
            /\ UrlUnquote(response.location) = RecipePrefix \o slug

C2_Witness ==
    /\ CompletePost
    /\ "\n" \in Range(request.form["ingredients"])
    /\ Len(Item(recipes, Slugify(request.form["name"])).ingredients) = 3
    /\ response.status = 302

\* C3: GET /recipe/{s} answers 200 with the detail page of the record stored at s
\* when s is a key of the store, and 404 "Recipe not found" when it is not.
C3_DetailExactlyForKeys ==
    \A s \in Keys(recipes) \cup {AbsentSlug} :
        (request.method = "GET" /\ request.path = UrlForRecipe(s)) =>
            IF HasKey(recipes, s)
            THEN response = Page(DetailPage(Item(recipes, s)))
            ELSE response = RecipeNotFound

\* C4: every key of the store is non-empty and made only of lowercase letters,
\* digits, underscores and hyphens (so it holds no whitespace).
C4_KeysAreSlugs ==
    \A k \in Keys(recipes) : k # <<>> /\ Range(k) \subseteq SlugChars

\* C5: a POST /add whose slug is already a key leaves the number of recipes
\* unchanged, replaces the whole record at that key by the submission, answers
\* with the redirect, and leaves the record at every other key as it was.
C5_OverwriteReplacesWhole ==
    [][ (/\ request'.method = "POST"
         /\ DOMAIN request'.form = Fields
         /\ HasKey(recipes, Slugify(request'.form["name"])))
        => LET k == Slugify(request'.form["name"])
           IN  /\ Len(recipes') = Len(recipes)
               /\ Cardinality(Keys(recipes')) = Len(recipes')
               /\ Item(recipes', k) = Submitted(request'.form)
               /\ response'.status = 302
               /\ \A j \in Keys(recipes) \ {k} :
                      HasKey(recipes', j) /\ Item(recipes', j) = Item(recipes, j) ]_vars

C5_Witness ==
    /\ CompletePost
    /\ Slugify(request.form["name"]) = SeedSlug
    /\ Len(recipes) = 1
    /\ Item(recipes, SeedSlug) = Submitted(request.form)
    /\ Item(recipes, SeedSlug) # SeedRecipe

\* C6: the list page shows exactly one card per recipe, in the order in which the
\* slugs were first inserted, the seeded recipe first; overwriting does not move
\* a card.
C6_ListInFirstInsertionOrder ==
    /\ firstInserted[1] = SeedSlug
    /\ Cardinality(Keys(recipes)) = Len(firstInserted)
    /\ index(recipes).response =
           Page([page |-> "index",
                 cards |-> [i \in 1..Len(firstInserted) |->
                               [name |-> Item(recipes, firstInserted[i]).name,
                                href |-> UrlForRecipe(firstInserted[i])]]])
    /\ (request.method = "GET" /\ request.path = IndexPath)
           => response = index(recipes).response

C6_Witness ==
    /\ CompletePost
    /\ Slugify(request.form["name"]) = SeedSlug
    /\ nposts = 2
    /\ Len(recipes) = 2
    /\ firstInserted[1] = SeedSlug

\* C7: a POST /add that lacks one of the three fields is answered 400 and leaves
\* the store exactly as it was.
C7_MissingFieldRejected ==
    [][ (request'.method = "POST" /\ DOMAIN request'.form # Fields)
        => (response'.status = 400 /\ recipes' = recipes) ]_vars

C7_Witness ==
    /\ request.method = "POST"
    /\ DOMAIN request.form = {"name", "instructions"}
    /\ response.status = 400
    /\ nposts = 2

\* C9: after a successful POST /add, following the redirect it returned, with no
\* request in between, answers 200 with the detail page of the record submitted.
C9_ReadYourWrite ==
    [][ (/\ request.method = "POST"
         /\ response.status = 302
         /\ request'.method = "GET"
         /\ request'.path = response.location)
        => response' = Page(DetailPage(Submitted(request.form))) ]_vars

\* C10: a GET of any path leaves the store unchanged, no request removes a key,
\* and midnight-ramen is always a key.
C10_OnlyPostChangesStore ==
    [][ /\ (request'.method = "GET" => recipes' = recipes)
        /\ Keys(recipes) \subseteq Keys(recipes')
        /\ HasKey(recipes', SeedSlug) ]_vars

C10_Witness ==
    /\ request.method = "GET"
    /\ response.status = 200
    /\ response.body.page = "detail"
    /\ Len(recipes) = 3

\* C8: when two POST /add requests run concurrently, in every interleaving each
\* key holds exactly one record, the record at a key the requests wrote is wholly
\* the submission of the request whose store write came last, and a key no
\* request wrote holds the record it had.
C8_LastWriteWins ==
    \A k \in Keys(recipes) :
        LET written == {i \in DOMAIN writes : threads[writes[i]].recipe_id = k}
        IN  /\ Cardinality({i \in DOMAIN recipes : recipes[i].key = k}) = 1
            /\ IF written = {}
               THEN k = SeedSlug /\ Item(recipes, k) = SeedRecipe
               ELSE LET last == CHOOSE i \in written : \A j \in written : j <= i
                    IN  Item(recipes, k) = Submitted(threads[writes[last]].form)

C8_Witness ==
    /\ \A t \in Threads : threads[t].pc = "done" /\ threads[t].response.status = 302
    /\ threads[1].recipe_id = threads[2].recipe_id
    /\ threads[1].name # threads[2].name
    /\ threads[1].ingredients # threads[2].ingredients
    /\ threads[1].instructions # threads[2].instructions
    /\ writes = <<2, 1>>
    /\ Len(recipes) = 2

====
